---------------------------- MODULE Spec2Model ----------------------------
(***************************************************************************)
(* Model of src/main.py: the dependency-graph visualizer.                  *)
(*                                                                         *)
(* A Python str is modelled as a sequence of one-character strings, a list *)
(* as a sequence, a dict that the code iterates (graph) as a record of its *)
(* keys in insertion order and a function, a dict that the code only looks *)
(* up (packages_data) as a function.  A list is an object: the index       *)
(* records and the graph hold REFERENCES into `heap`, so that two names    *)
(* for one list object see each other's appends, as in Python.             *)
(***************************************************************************)
EXTENDS Integers, Sequences, FiniteSets, TLC

VARIABLES
    pc,             \* position of the run: the stage of main / line of build_dependency_graph
    args,           \* argparse namespace: package, repo, mode, version, output, depth
    env,            \* what the repo path / URL yields: [ok |-> BOOLEAN, text |-> str]
    packages_data,  \* name -> [version |-> str, dependencies |-> reference into heap]
    heap,           \* reference -> list of names (the dependency list objects)
    index0,         \* history: the index (lists by value) as the Provider produced it
    max_depth,      \* build_dependency_graph's max_depth parameter
    graph,          \* dict: [keys |-> names in insertion order, ref |-> name -> reference]
    visited,        \* build_dependency_graph's visited set
    queue,          \* build_dependency_graph's deque of [pkg, ver, depth]
    cur_pkg,        \* the package being expanded
    depth,          \* its depth
    dependencies,   \* reference of the list the for loop iterates
    it,             \* position of the for loop's list iterator (1-based)
    cycle,          \* detect_cycles' result: [some |-> BOOLEAN, val |-> list]
    load_order,     \* topological_sort's result: [order |-> list, has_cycle |-> BOOLEAN]
    out             \* the lines printed, one tag per print that reports a result

vars == << pc, args, env, packages_data, heap, index0, max_depth, graph, visited,
           queue, cur_pkg, depth, dependencies, it, cycle, load_order, out >>

-----------------------------------------------------------------------------
(* Bounds of the model. *)

\* longest dependency list an input record carries
MaxDeps == 2
\* largest --depth / max_depth tried
MaxDepth == 2
\* number of elements a list can hold before the allocator gives up (MemoryError)
MaxList == 4
\* most lines of a test file
MaxLines == 2
\* most records of an APKINDEX
MaxRecords == 2

-----------------------------------------------------------------------------
(* Strings. *)

pA == <<"A">>
pB == <<"B">>
pC == <<"C">>
Names == {pA, pB, pC}

LATEST == <<"l", "a", "t", "e", "s", "t">>
V10 == <<"1", ".", "0">>
V20 == <<"2", ".", "0">>
SO == <<"s", "o", ":">>
HTTP == <<"h", "t", "t", "p", ":", "/", "/">>
HTTPS == <<"h", "t", "t", "p", "s", ":", "/", "/">>

\* Python's None, and an optional value.
None == [some |-> FALSE, val |-> <<>>]
Some(v) == [some |-> TRUE, val |-> v]

\* Python truthiness of a value that is None or a list.
Truthy(r) == r.some /\ r.val # <<>>

IsWs(c) == c \in {" ", "\t", "\n"}

RECURSIVE lstrip(_)
lstrip(s) == IF s # <<>> /\ IsWs(Head(s)) THEN lstrip(Tail(s)) ELSE s

RECURSIVE rstrip(_)
rstrip(s) == IF s # <<>> /\ IsWs(s[Len(s)]) THEN rstrip(SubSeq(s, 1, Len(s) - 1)) ELSE s

\* str.strip()
strip(s) == rstrip(lstrip(s))

\* c in s
Contains(s, c) == \E i \in 1..Len(s) : s[i] = c

\* x in list
InList(x, l) == \E i \in 1..Len(l) : l[i] = x

\* list.index(x) (1-based): the first occurrence
IndexOf(l, x) == CHOOSE i \in 1..Len(l) : l[i] = x /\ \A j \in 1..(i - 1) : l[j] # x

\* s.split(c, 1): one or two pieces
split1(s, c) ==
    IF Contains(s, c)
    THEN << SubSeq(s, 1, IndexOf(s, c) - 1), SubSeq(s, IndexOf(s, c) + 1, Len(s)) >>
    ELSE << s >>

\* s.split(c)[0]
before(s, c) == split1(s, c)[1]

\* s.split(c): every piece, empty ones included
RECURSIVE split(_, _)
split(s, c) ==
    IF Contains(s, c)
    THEN << SubSeq(s, 1, IndexOf(s, c) - 1) >> \o split(SubSeq(s, IndexOf(s, c) + 1, Len(s)), c)
    ELSE << s >>

\* length of the longest prefix of s without whitespace
RECURSIVE WordLen(_)
WordLen(s) == IF s = <<>> \/ IsWs(Head(s)) THEN 0 ELSE 1 + WordLen(Tail(s))

\* s.split(): the words between runs of whitespace
RECURSIVE split_ws(_)
split_ws(s) ==
    LET t == lstrip(s)
    IN  IF t = <<>> THEN <<>>
        ELSE << SubSeq(t, 1, WordLen(t)) >> \o split_ws(SubSeq(t, WordLen(t) + 1, Len(t)))

\* s.startswith(p)
startswith(s, p) == Len(s) >= Len(p) /\ SubSeq(s, 1, Len(p)) = p

\* iterating a text file: the lines, each with its newline
RECURSIVE file_lines(_)
file_lines(s) ==
    IF s = <<>> THEN <<>>
    ELSE IF Contains(s, "\n")
         THEN << SubSeq(s, 1, IndexOf(s, "\n")) >> \o file_lines(SubSeq(s, IndexOf(s, "\n") + 1, Len(s)))
         ELSE << s >>

\* an empty dict
EmptyDict == [k \in {} |-> <<>>]

\* d[k] = v on a dict kept as a function
DictPut(d, k, v) == (k :> v) @@ d

-----------------------------------------------------------------------------
(* The Provider: validate_args and the two index parsers.  A parsed record  *)
(* is [version, dependencies]; its description is never read and is left   *)
(* out.                                                                     *)

\* validate_args: the list of error messages
validate_args(a) ==
    (IF a.package = <<>> THEN << "Empty name" >> ELSE <<>>)
    \o (IF a.repo = <<>> THEN << "Empty path" >>
        ELSE IF a.mode = "online" /\ ~(startswith(a.repo, HTTP) \/ startswith(a.repo, HTTPS))
             THEN << "URL must start with http:// or https:// in online mode" >>
             ELSE <<>>)
    \o (IF a.mode \notin {"online", "test"} THEN << "mode not exist" >> ELSE <<>>)
    \o (IF a.version = <<>> THEN << "Empty version" >> ELSE <<>>)
    \o (IF a.output = <<>> THEN << "Empty output name" >> ELSE <<>>)
    \o (IF a.depth <= 0 THEN << "Depth incorrect" >> ELSE <<>>)

\* one step of parse_dependencies' loop: strip the version constraint, skip so:, deduplicate
RECURSIVE parse_deps_loop(_, _)
parse_deps_loop(words, deps) ==
    IF words = <<>> THEN deps
    ELSE LET dep == before(before(before(Head(words), ">"), "<"), "=")
         IN  IF startswith(dep, SO) THEN parse_deps_loop(Tail(words), deps)
             ELSE IF ~InList(dep, deps) THEN parse_deps_loop(Tail(words), Append(deps, dep))
             ELSE parse_deps_loop(Tail(words), deps)

parse_dependencies(dep_string) ==
    IF dep_string = <<>> THEN <<>> ELSE parse_deps_loop(split_ws(dep_string), <<>>)

\* dict.get(k, "")
GetOr(d, k) == IF k \in DOMAIN d THEN d[k] ELSE <<>>

RECURSIVE parse_apkindex_loop(_, _, _)
parse_apkindex_loop(lines, packages, current_pkg) ==
    IF lines = <<>> THEN packages
    ELSE LET line == Head(lines)
         IN  IF strip(line) = <<>>
             THEN IF DOMAIN current_pkg # {} /\ <<"P">> \in DOMAIN current_pkg
                  THEN parse_apkindex_loop(Tail(lines),
                           DictPut(packages, current_pkg[<<"P">>],
                               [version |-> GetOr(current_pkg, <<"V">>),
                                dependencies |-> parse_dependencies(GetOr(current_pkg, <<"D">>))]),
                           EmptyDict)
                  ELSE parse_apkindex_loop(Tail(lines), packages, EmptyDict)
             ELSE IF Contains(line, ":")
                  THEN parse_apkindex_loop(Tail(lines), packages,
                           DictPut(current_pkg, split1(line, ":")[1], split1(line, ":")[2]))
                  ELSE parse_apkindex_loop(Tail(lines), packages, current_pkg)

parse_apkindex(content) == parse_apkindex_loop(split(content, "\n"), EmptyDict, EmptyDict)

\* download_apkindex: e.ok is false when the fetch, the archive or the decoding raises
\* or the archive has no APKINDEX member; e.text is the decoded APKINDEX member.
download_apkindex(e) == IF e.ok THEN parse_apkindex(e.text) ELSE EmptyDict

\* [d.strip() for d in deps.split() if d.strip()]
RECURSIVE strip_each(_)
strip_each(words) ==
    IF words = <<>> THEN <<>>
    ELSE IF strip(Head(words)) # <<>> THEN << strip(Head(words)) >> \o strip_each(Tail(words))
    ELSE strip_each(Tail(words))

RECURSIVE parse_file_test_loop(_, _)
parse_file_test_loop(lines, packages) ==
    IF lines = <<>> THEN packages
    ELSE LET line == strip(Head(lines))
         IN  IF line = <<>> \/ startswith(line, <<"#">>)
             THEN parse_file_test_loop(Tail(lines), packages)
             ELSE IF Contains(line, ":")
                  THEN parse_file_test_loop(Tail(lines),
                           DictPut(packages, strip(split1(line, ":")[1]),
                               [version |-> V10,
                                dependencies |-> strip_each(split_ws(split1(line, ":")[2]))]))
                  ELSE parse_file_test_loop(Tail(lines), packages)

\* parse_file_test: e.ok is false when open() raises (caught: the empty dict is returned)
parse_file_test(e) == IF e.ok THEN parse_file_test_loop(file_lines(e.text), EmptyDict) ELSE EmptyDict

\* the fallback index of main, lines 263-269
pD == <<"D">>
pE == <<"E">>
FallbackData ==
    (pA :> [version |-> V10, dependencies |-> << pB, pC >>])
    @@ (pB :> [version |-> V20, dependencies |-> << pD >>])
    @@ (pC :> [version |-> <<"3", ".", "0">>, dependencies |-> << pD, pE >>])
    @@ (pD :> [version |-> <<"4", ".", "0">>, dependencies |-> <<>>])
    @@ (pE :> [version |-> <<"5", ".", "0">>, dependencies |-> << pA >>])

\* Storing a parsed index: each record's dependency list is one list object,
\* referred to by the name of the record that owns it.
StoreRecords(packages) ==
    [p \in DOMAIN packages |-> [version |-> packages[p].version, dependencies |-> p]]
StoreLists(packages) == [p \in DOMAIN packages |-> packages[p].dependencies]

\* the index with every list read through its reference
Deref(data, h) ==
    [p \in DOMAIN data |-> [version |-> data[p].version, dependencies |-> h[data[p].dependencies]]]

-----------------------------------------------------------------------------
(* get_package_dependencies: None, or the record's list object.  The        *)
(* version-mismatch print is reported by VersionNotice.                     *)

get_package_dependencies(package_name, version, data) ==
    IF package_name \notin DOMAIN data THEN None
    ELSE Some(data[package_name].dependencies)

VersionNotice(package_name, version, data) ==
    /\ package_name \in DOMAIN data
    /\ version # LATEST
    /\ data[package_name].version # version

-----------------------------------------------------------------------------
(* build_dependency_graph, one action per loop step.                        *)
(* pc: "while" (line 114), "for" (line 122), "returned" (line 128),        *)
(* "MemoryError" (list.append could not grow the list; nothing catches it). *)

EmptyGraph == [keys |-> <<>>, ref |-> EmptyDict]

\* graph[k] = r: a new key goes last, an old key keeps its place
GraphSet(g, k, r) ==
    [keys |-> IF k \in DOMAIN g.ref THEN g.keys ELSE Append(g.keys, k),
     ref |-> DictPut(g.ref, k, r)]

\* the graph with every list read through its reference:
\* [keys |-> names in insertion order, adj |-> name -> list]
GraphValue(g, h) == [keys |-> g.keys, adj |-> [k \in DOMAIN g.ref |-> h[g.ref[k]]]]

\* line 116: if depth >= max_depth: continue
DepthReachedOff(d, limit) == d > limit
DepthReached(d, limit) == d >= limit

\* line 125: the depth a dependency is enqueued at
ChildDepth(d) == d + 1

\* lines 109-113: the locals after the root is enqueued
BuildEntry(package_name, version) ==
    /\ graph' = EmptyGraph
    /\ visited' = {package_name}
    /\ queue' = << [pkg |-> package_name, ver |-> version, depth |-> 0] >>

\* lines 114-121: pop a node; skip it when too deep or not in the index,
\* otherwise make the record's list object its graph entry and start the for loop
BuildPop ==
    /\ pc = "while"
    /\ queue # <<>>
    /\ LET item == Head(queue)
           deps == get_package_dependencies(item.pkg, item.ver, packages_data)
       IN  /\ queue' = Tail(queue)
           /\ cur_pkg' = item.pkg
           /\ depth' = item.depth
           /\ IF DepthReached(item.depth, max_depth)
              THEN /\ pc' = "while"
                   /\ UNCHANGED << graph, dependencies, it, out >>
              ELSE /\ out' = IF VersionNotice(item.pkg, item.ver, packages_data)
                             THEN Append(out, "Version not found") ELSE out
                   /\ IF ~deps.some
                      THEN /\ pc' = "while"
                           /\ UNCHANGED << graph, dependencies, it >>
                      ELSE /\ graph' = GraphSet(graph, item.pkg, deps.val)
                           /\ dependencies' = deps.val
                           /\ it' = 1
                           /\ pc' = "for"
    /\ UNCHANGED << args, env, packages_data, heap, index0, max_depth, visited, cycle, load_order >>

\* lines 122-127: one iteration of the for loop over the list object `dependencies`
\* (the iterator re-reads the list's length at every step), or its end
BuildFor ==
    /\ pc = "for"
    /\ IF it > Len(heap[dependencies])
       THEN /\ pc' = "while"
            /\ UNCHANGED << heap, visited, queue, it >>
       ELSE LET dep == heap[dependencies][it]
            IN  IF dep \notin visited /\ dep \in DOMAIN packages_data
                THEN /\ visited' = visited \cup {dep}
                     /\ queue' = Append(queue, [pkg |-> dep,
                                                ver |-> packages_data[dep].version,
                                                depth |-> ChildDepth(depth)])
                     /\ it' = it + 1
                     /\ UNCHANGED << pc, heap >>
                ELSE IF dep \notin DOMAIN packages_data
                     \* graph.setdefault(cur_pkg, []).append(dep): cur_pkg is a key,
                     \* so the append goes to the list object graph[cur_pkg] refers to
                     THEN IF Len(heap[graph.ref[cur_pkg]]) < MaxList
                          THEN /\ heap' = [heap EXCEPT ![graph.ref[cur_pkg]] = Append(@, dep)]
                               /\ it' = it + 1
                               /\ UNCHANGED << pc, visited, queue >>
                          ELSE /\ pc' = "MemoryError"
                               /\ UNCHANGED << heap, visited, queue, it >>
                     ELSE /\ it' = it + 1
                          /\ UNCHANGED << pc, heap, visited, queue >>
    /\ UNCHANGED << args, env, packages_data, index0, max_depth, graph, cur_pkg, depth,
                    dependencies, cycle, load_order, out >>

\* line 128: the queue is empty, return graph
BuildReturn ==
    /\ pc = "while"
    /\ queue = <<>>
    /\ pc' = "returned"
    /\ UNCHANGED << args, env, packages_data, heap, index0, max_depth, graph, visited,
                    queue, cur_pkg, depth, dependencies, it, cycle, load_order, out >>

-----------------------------------------------------------------------------
(* build_dependency_graph called on any index, root and max_depth.          *)

\* the dependency lists of up to MaxDeps names
DepLists == UNION { [1..n -> Names] : n \in 0..MaxDeps }

\* the indexes over a subset of the names (parse_file_test yields each of them)
Indexes(names) == UNION { [S -> [version : {V10}, dependencies : DepLists]] : S \in SUBSET names }

NoArgs == [package |-> <<>>, repo |-> <<>>, mode |-> "", version |-> <<>>, output |-> <<>>,
           depth |-> 0]
NoEnv == [ok |-> FALSE, text |-> <<>>]
NoOrder == [order |-> <<>>, has_cycle |-> FALSE]

BuildInit ==
    \E data \in Indexes(Names), root \in Names, d \in 0..MaxDepth :
        /\ pc = "while"
        /\ args = [NoArgs EXCEPT !.package = root, !.version = LATEST, !.depth = d]
        /\ env = NoEnv
        /\ packages_data = StoreRecords(data)
        /\ heap = StoreLists(data)
        /\ index0 = data
        /\ max_depth = d
        /\ graph = EmptyGraph
        /\ visited = {root}
        /\ queue = << [pkg |-> root, ver |-> LATEST, depth |-> 0] >>
        /\ cur_pkg = <<>>
        /\ depth = 0
        /\ dependencies = <<>>
        /\ it = 0
        /\ cycle = None
        /\ load_order = NoOrder
        /\ out = <<>>

BuildNext == BuildPop \/ BuildFor \/ BuildReturn

BuildSpec == BuildInit /\ [][BuildNext]_vars

-----------------------------------------------------------------------------
(* detect_cycles.  A graph G is [keys, adj] as GraphValue gives it.  The    *)
(* nested dfs shares the set `visited` of detect_cycles, so dfs takes it    *)
(* and gives it back: [result |-> None or a list, visited |-> set].         *)
(* path is passed by value: the caller hands over path.copy().             *)

\* graph.get(node, [])
GraphGet(G, node) == IF node \in DOMAIN G.adj THEN G.adj[node] ELSE <<>>

\* lines 156-157: path[start:] + [node]
CycleFromWholePath(path, node) == path \o << node >>
CycleFrom(path, node) == SubSeq(path, IndexOf(path, node), Len(path)) \o << node >>

RECURSIVE dfs(_, _, _, _)
RECURSIVE dfs_for(_, _, _, _, _)

\* dfs with the visited test before the path test
dfs_visited_first(G, node, path, vis) ==
    IF node \in vis THEN [result |-> None, visited |-> vis]
    ELSE IF InList(node, path)
         THEN [result |-> Some(CycleFrom(path, node)), visited |-> vis]
         ELSE dfs_for(G, GraphGet(G, node), 1, Append(path, node), vis \cup {node})

\* lines 154-162
dfs(G, node, path, vis) ==
    IF InList(node, path)
    THEN [result |-> Some(CycleFrom(path, node)), visited |-> vis]
    ELSE IF node \in vis THEN [result |-> None, visited |-> vis]
         ELSE dfs_for(G, GraphGet(G, node), 1, Append(path, node), vis \cup {node})

\* lines 162-166: the loop over the neighbours, from the i-th on
dfs_for(G, neighs, i, path, vis) ==
    IF i > Len(neighs) THEN [result |-> None, visited |-> vis]
    ELSE LET r == dfs(G, neighs[i], path, vis)
         IN  IF Truthy(r.result) THEN r
             ELSE dfs_for(G, neighs, i + 1, path, r.visited)

\* lines 169-174: the loop over the keys, from the i-th on
RECURSIVE detect_cycles_for(_, _, _)
detect_cycles_for(G, i, vis) ==
    IF i > Len(G.keys) THEN None
    ELSE IF G.keys[i] \notin vis
         THEN LET r == dfs(G, G.keys[i], <<>>, vis)
              IN  IF Truthy(r.result) THEN r.result
                  ELSE detect_cycles_for(G, i + 1, r.visited)
         ELSE detect_cycles_for(G, i + 1, vis)

detect_cycles(G) == detect_cycles_for(G, 1, {})

-----------------------------------------------------------------------------
(* topological_sort *)

\* lines 200-204: inv_graph, built package by package (i), dependency by dependency (j)
RECURSIVE inv_graph_for(_, _, _, _)
inv_graph_for(G, i, j, inv) ==
    IF i > Len(G.keys) THEN inv
    ELSE LET package == G.keys[i]
         IN  IF j > Len(G.adj[package]) THEN inv_graph_for(G, i + 1, 1, inv)
             ELSE LET dep == G.adj[package][j]
                  IN  IF dep \in DOMAIN G.adj
                      THEN inv_graph_for(G, i, j + 1, [inv EXCEPT ![dep] = Append(@, package)])
                      ELSE inv_graph_for(G, i, j + 1, inv)

inv_graph(G) == inv_graph_for(G, 1, 1, [node \in DOMAIN G.adj |-> <<>>])

\* in_degree counting, for each node, the entries of its own inv_graph list
in_degree_of_dependents(G, inv) == [node \in DOMAIN G.adj |-> Len(inv[node])]

\* lines 205-208: in_degree[dep] += 1 for every dep in every inv_graph[node]:
\* in_degree[p] is the number of times p occurs in the lists of inv_graph
RECURSIVE in_degree_for(_, _, _, _, _)
in_degree_for(G, inv, i, j, deg) ==
    IF i > Len(G.keys) THEN deg
    ELSE IF j > Len(inv[G.keys[i]]) THEN in_degree_for(G, inv, i + 1, 1, deg)
         ELSE in_degree_for(G, inv, i, j + 1, [deg EXCEPT ![inv[G.keys[i]][j]] = @ + 1])

in_degree(G, inv) == in_degree_for(G, inv, 1, 1, [node \in DOMAIN G.adj |-> 0])

\* line 209: the test that seeds the queue
IsSeedUpToOne(deg, node) == deg[node] <= 1
IsSeed(deg, node) == deg[node] = 0

\* line 209: deque([node for node in graph if in_degree[node] == 0])
ReadyQueue(G, deg) == LET Test(node) == IsSeed(deg, node) IN SelectSeq(G.keys, Test)

\* lines 211-217
RECURSIVE kahn_while(_, _, _, _)
RECURSIVE kahn_for(_, _, _, _, _, _)
kahn_while(inv, q, order, deg) ==
    IF q = <<>> THEN order
    ELSE kahn_for(inv, Tail(q), Append(order, Head(q)), deg, Head(q), 1)

kahn_for(inv, q, order, deg, node, j) ==
    IF j > Len(inv[node]) THEN kahn_while(inv, q, order, deg)
    ELSE LET dep == inv[node][j]
             deg2 == [deg EXCEPT ![dep] = @ - 1]
         IN  kahn_for(inv, IF deg2[dep] = 0 THEN Append(q, dep) ELSE q, order, deg2, node, j + 1)

\* line 218
HasCycleFlag(order, G) == Len(order) # Len(G.keys)

topological_sort(G) ==
    IF G.keys = <<>> THEN [order |-> <<>>, has_cycle |-> FALSE]
    ELSE LET inv == inv_graph(G)
             deg == in_degree(G, inv)
             order == kahn_while(inv, ReadyQueue(G, deg), <<>>, deg)
         IN  [order |-> order, has_cycle |-> HasCycleFlag(order, G)]

-----------------------------------------------------------------------------
(* main, one action per stage.                                              *)
(* pc: "start", "exit1" (sys.exit(1)), "load", "build", then the pcs of     *)
(* build_dependency_graph, "print_graph", "detect", "topo", "done".         *)

\* lines 239-254: parse and validate the arguments
MainValidate ==
    /\ pc = "start"
    /\ IF validate_args(args) # <<>>
       THEN /\ out' = validate_args(args)
            /\ pc' = "exit1"
       ELSE /\ out' = <<>>
            /\ pc' = "load"
    /\ UNCHANGED << args, env, packages_data, heap, index0, max_depth, graph, visited,
                    queue, cur_pkg, depth, dependencies, it, cycle, load_order >>

\* lines 255-269: the index of the mode, or the fallback index for an empty test index
LoadedData ==
    IF args.mode = "online" THEN download_apkindex(env)
    ELSE IF DOMAIN parse_file_test(env) = {} THEN FallbackData ELSE parse_file_test(env)

MainLoad ==
    /\ pc = "load"
    /\ packages_data' = StoreRecords(LoadedData)
    /\ heap' = StoreLists(LoadedData)
    /\ index0' = LoadedData
    /\ out' = IF args.mode = "test" /\ DOMAIN parse_file_test(env) = {}
              THEN Append(out, "Using fallback test data") ELSE out
    /\ pc' = "build"
    /\ UNCHANGED << args, env, max_depth, graph, visited, queue, cur_pkg, depth,
                    dependencies, it, cycle, load_order >>

\* line 270: the call of build_dependency_graph, up to its while loop
MainBuild ==
    /\ pc = "build"
    /\ max_depth' = args.depth
    /\ BuildEntry(args.package, args.version)
    /\ pc' = "while"
    /\ UNCHANGED << args, env, packages_data, heap, index0, cur_pkg, depth, dependencies,
                    it, cycle, load_order, out >>

\* lines 271-277: the direct dependencies of the root, or "No dependencies"
\* when the lookup gives None or an empty list
MainDirect ==
    /\ pc = "returned"
    /\ LET deps == get_package_dependencies(args.package, args.version, packages_data)
           noted == IF VersionNotice(args.package, args.version, packages_data)
                    THEN Append(out, "Version not found") ELSE out
       IN  out' = IF deps.some /\ heap[deps.val] # <<>>
                  THEN Append(noted, "Dependencies for")
                  ELSE Append(noted, "No dependencies")
    /\ pc' = "print_graph"
    /\ UNCHANGED << args, env, packages_data, heap, index0, max_depth, graph, visited,
                    queue, cur_pkg, depth, dependencies, it, cycle, load_order >>

\* line 278: print_dependency_graph only prints (its rendering is not modelled)
MainPrintGraph ==
    /\ pc = "print_graph"
    /\ out' = Append(out, "Dependency graph for")
    /\ pc' = "detect"
    /\ UNCHANGED << args, env, packages_data, heap, index0, max_depth, graph, visited,
                    queue, cur_pkg, depth, dependencies, it, cycle, load_order >>

\* lines 279-283
MainDetect ==
    /\ pc = "detect"
    /\ cycle' = detect_cycles(GraphValue(graph, heap))
    /\ out' = IF Truthy(cycle') THEN Append(out, "Cycle detected")
              ELSE Append(out, "No cycles detected")
    /\ pc' = "topo"
    /\ UNCHANGED << args, env, packages_data, heap, index0, max_depth, graph, visited,
                    queue, cur_pkg, depth, dependencies, it, load_order >>

\* lines 285-294
MainTopo ==
    /\ pc = "topo"
    /\ load_order' = topological_sort(GraphValue(graph, heap))
    /\ out' = (IF load_order'.has_cycle
               THEN Append(out, "Graph contains cycles, load order may be incomplete")
               ELSE out)
              \o (IF load_order'.order = <<>>
                  THEN << "No valid load order can be determined due to cycles" >>
                  ELSE << "Load order" >>)
    /\ pc' = "done"
    /\ UNCHANGED << args, env, packages_data, heap, index0, max_depth, graph, visited,
                    queue, cur_pkg, depth, dependencies, it, cycle >>

-----------------------------------------------------------------------------
(* The runs of main: the command lines and what the repo yields.            *)

\* "name: dep dep" and a newline
RECURSIVE SpaceJoined(_)
SpaceJoined(ds) == IF ds = <<>> THEN <<>> ELSE << " " >> \o Head(ds) \o SpaceJoined(Tail(ds))
RecordLine(n, ds) == n \o << ":" >> \o SpaceJoined(ds) \o << "\n" >>

\* the lines a test file is made of: records of A and B, a comment, a blank
\* line, a line without a colon
TestLines ==
    { RecordLine(n, ds) : n \in {pA, pB}, ds \in DepLists }
    \cup { << "#", " ", "A", ":", " ", "B", "\n" >>, << " ", "\n" >>, << "A", " ", "B", "\n" >> }

RECURSIVE Concat(_)
Concat(ls) == IF ls = <<>> THEN <<>> ELSE Head(ls) \o Concat(Tail(ls))

\* the texts made of up to n of the pieces
Texts(pieces, n) == { Concat(ls) : ls \in UNION { [1..k -> pieces] : k \in 0..n } }

\* APKINDEX records: P, V, an optional D line, T, and the blank line that ends the record
ApkDepStrings ==
    { <<>>,
      << "B" >>,
      << "B", ">", "=", "1", " ", "C" >>,
      << "s", "o", ":", "c", " ", "B", "<", "2" >>,
      << "B", " ", "B", "=", "1" >> }
ApkRecord(n, d) ==
    << "P", ":" >> \o n \o << "\n", "V", ":" >> \o V20 \o << "\n" >>
    \o (IF d = <<>> THEN <<>> ELSE << "D", ":" >> \o d \o << "\n" >>)
    \o << "T", ":", "x", "\n", "\n" >>
ApkRecords == { ApkRecord(n, d) : n \in {pA, pB}, d \in ApkDepStrings }

Envs(mode) ==
    { NoEnv } \cup [ok : {TRUE}, text : IF mode = "online" THEN Texts(ApkRecords, MaxRecords)
                                 ELSE Texts(TestLines, MaxLines)]

CommandLines ==
    [package : {pA, pC, <<>>},
     repo : { << "r" >>, HTTP \o << "r" >> },
     mode : {"online", "test"},
     version : {LATEST, V10},
     output : { << "g" >> },
     depth : 0..MaxDepth]

Init ==
    \E a \in CommandLines :
        \E e \in Envs(a.mode) :
            /\ pc = "start"
            /\ args = a
            /\ env = e
            /\ packages_data = EmptyDict
            /\ heap = EmptyDict
            /\ index0 = EmptyDict
            /\ max_depth = 0
            /\ graph = EmptyGraph
            /\ visited = {}
            /\ queue = <<>>
            /\ cur_pkg = <<>>
            /\ depth = 0
            /\ dependencies = <<>>
            /\ it = 0
            /\ cycle = None
            /\ load_order = NoOrder
            /\ out = <<>>

Next ==
    \/ MainValidate
    \/ MainLoad
    \/ MainBuild
    \/ BuildPop
    \/ BuildFor
    \/ BuildReturn
    \/ MainDirect
    \/ MainPrintGraph
    \/ MainDetect
    \/ MainTopo

Spec == Init /\ [][Next]_vars

-----------------------------------------------------------------------------
(* detect_cycles and topological_sort called on any graph: every subset of  *)
(* Names as keys, in every insertion order, every dependency list.          *)

\* the sequences that list each element of S once
Orderings(S) == { o \in [1..Cardinality(S) -> S] : \A i, j \in 1..Cardinality(S) : o[i] = o[j] => i = j }

GraphInit ==
    \E S \in SUBSET Names :
        \E keys \in Orderings(S), lists \in [S -> DepLists] :
            /\ pc = "detect"
            /\ args = NoArgs
            /\ env = NoEnv
            /\ packages_data = EmptyDict
            /\ heap = lists
            /\ index0 = EmptyDict
            /\ max_depth = 0
            /\ graph = [keys |-> keys, ref |-> [k \in S |-> k]]
            /\ visited = {}
            /\ queue = <<>>
            /\ cur_pkg = <<>>
            /\ depth = 0
            /\ dependencies = <<>>
            /\ it = 0
            /\ cycle = None
            /\ load_order = NoOrder
            /\ out = <<>>

GraphNext == MainDetect \/ MainTopo

GraphSpec == GraphInit /\ [][GraphNext]_vars

-----------------------------------------------------------------------------
(* What the claims speak of, defined without the code's algorithms.         *)

\* the graph as the later stages read it
G == GraphValue(graph, heap)
KeySet == DOMAIN graph.ref

\* no element occurs twice in list l
NoDup(l) == \A i, j \in 1..Len(l) : l[i] = l[j] => i = j

\* the elements of list l
Elems(l) == { l[i] : i \in 1..Len(l) }

\* the keys that key a lists as a dependency
Succ(Gr, a) == { b \in DOMAIN Gr.adj : InList(b, Gr.adj[a]) }

\* the least set that holds S and the successors of its members
RECURSIVE Closure(_, _)
Closure(Gr, S) ==
    LET T == S \cup UNION { Succ(Gr, x) : x \in S }
    IN  IF T = S THEN S ELSE Closure(Gr, T)

\* the keys reachable from key a along one or more edges between keys
ReachPlus(Gr, a) == Closure(Gr, Succ(Gr, a))
OnCycle(Gr, a) == a \in ReachPlus(Gr, a)
Cyclic(Gr) == \E a \in DOMAIN Gr.adj : OnCycle(Gr, a)

\* the index packages within k hops of root, along dependencies on index packages
RECURSIVE Within(_, _, _)
Within(data, root, k) ==
    IF root \notin DOMAIN data \/ k < 0 THEN {}
    ELSE IF k = 0 THEN {root}
    ELSE LET W == Within(data, root, k - 1)
         IN  W \cup { q \in DOMAIN data : \E p \in W : InList(q, data[p].dependencies) }

BuildPcs == {"while", "for", "returned", "MemoryError"}

-----------------------------------------------------------------------------
(* The claims. *)

\* C1: build_dependency_graph terminates for every finite index, root and
\* max_depth: a call that has not returned always has a next step of its loops
\* to take (and the bounded lists leave no room for an endless run), so the
\* queue drains and every for loop over a dependency list ends.
C1_BuildTerminates == pc \in BuildPcs => (pc = "returned" \/ ENABLED BuildNext)

\* C2: build_dependency_graph never modifies the index it is given: in every
\* state during and after the call every record's dependency list and version
\* are what they were before the call.
C2_IndexUnmodified == pc \in BuildPcs => Deref(packages_data, heap) = index0

\* C3: when build_dependency_graph returns, the keys of the graph are exactly
\* the index packages whose shortest distance from the root is less than
\* max_depth (none for max_depth <= 0 or a root that is not in the index).
C3_KeysWithinDepth ==
    pc = "returned" =>
        /\ KeySet = Within(index0, args.package, max_depth - 1)
        /\ Elems(graph.keys) = KeySet
        /\ NoDup(graph.keys)
        /\ (max_depth <= 0 \/ args.package \notin DOMAIN index0) => graph.keys = <<>>

\* C3's case: a returned graph of two or more keys that leaves out an index
\* package first reached at depth max_depth.
C3_Witness ==
    /\ pc = "returned"
    /\ Cardinality(KeySet) >= 2
    /\ \E q \in Within(index0, args.package, max_depth) : q \notin KeySet

\* C4: for every expanded package p, graph[p] is the dependency list of p's
\* record as it was before the call (same names, same order, same number of
\* occurrences); a name that is not in the index is never enqueued and never a key.
C4_AdjacencyIsRecord ==
    pc \in BuildPcs =>
        /\ \A p \in KeySet : p \in DOMAIN index0 /\ G.adj[p] = index0[p].dependencies
        /\ \A i \in 1..Len(queue) : i > 1 => queue[i].pkg \in DOMAIN index0

\* C5: detect_cycles returns None exactly when no cycle runs among the keys,
\* and otherwise a non-empty list whose first and last elements are equal.
C5_CycleIffCyclic ==
    pc \in {"topo", "done"} =>
        /\ ~cycle.some <=> ~Cyclic(G)
        /\ cycle.some => /\ cycle.val # <<>>
                         /\ cycle.val[1] = cycle.val[Len(cycle.val)]

\* C5's case: a graph of three keys in which the search starts from a key that
\* leads to a cycle through two other keys without lying on it.
C5_Witness ==
    /\ pc = "topo"
    /\ Len(graph.keys) = 3
    /\ cycle.some
    /\ Len(cycle.val) >= 3
    /\ cycle.val[1] \in ReachPlus(G, graph.keys[1])
    /\ ~OnCycle(G, graph.keys[1])

\* C6 as amended: topological_sort seeds its ready queue with exactly the keys
\* that depend on no key of the graph and emits those first; in the order
\* returned for an acyclic graph every dependency that is a key comes before
\* the package that depends on it.
C6_DependenciesFirst ==
    pc = "done" =>
        LET Gr == G
            seeds == ReadyQueue(Gr, in_degree(Gr, inv_graph(Gr)))
            order == load_order.order
        IN  /\ Elems(seeds) = { k \in KeySet : Succ(Gr, k) = {} }
            /\ Len(order) >= Len(seeds)
            /\ SubSeq(order, 1, Len(seeds)) = seeds
            /\ ~Cyclic(Gr) =>
                   \A p \in KeySet : \A d \in Succ(Gr, p) :
                       /\ InList(p, order) /\ InList(d, order)
                       /\ IndexOf(order, d) < IndexOf(order, p)

\* C6 as stated: the ready queue holds exactly the keys no other key depends
\* on, emitted first, and in the order of an acyclic graph every dependency
\* that is a key comes after the package that depends on it.
C6_DependentsFirst ==
    pc = "done" =>
        LET Gr == G
            seeds == ReadyQueue(Gr, in_degree(Gr, inv_graph(Gr)))
            order == load_order.order
        IN  /\ Elems(seeds) = { k \in KeySet : \A p \in KeySet : k \notin Succ(Gr, p) }
            /\ Len(order) >= Len(seeds)
            /\ SubSeq(order, 1, Len(seeds)) = seeds
            /\ ~Cyclic(Gr) =>
                   \A p \in KeySet : \A d \in Succ(Gr, p) :
                       /\ InList(p, order) /\ InList(d, order)
                       /\ IndexOf(order, p) < IndexOf(order, d)

\* C6's case: an acyclic graph of three keys, all ordered, in which a key
\* depends on two others.
C6_Witness ==
    /\ pc = "done"
    /\ ~Cyclic(G)
    /\ Len(load_order.order) = 3
    /\ \E p \in KeySet : Cardinality(Succ(G, p)) = 2

\* C7: has_cycle is false exactly when no cycle runs among the keys; then the
\* order holds every key once; when has_cycle is true the order holds no key
\* twice, only keys, and leaves out exactly the keys that lie on or depend on
\* a cycle.  The empty graph gives ([], False).
C7_HasCycleAndCoverage ==
    pc = "done" =>
        LET Gr == G
            order == load_order.order
            onCycle == { k \in KeySet : OnCycle(Gr, k) }
            stuck == { k \in KeySet : k \in onCycle \/ ReachPlus(Gr, k) \cap onCycle # {} }
        IN  /\ ~load_order.has_cycle <=> onCycle = {}
            /\ NoDup(order)
            /\ Elems(order) = KeySet \ stuck
            /\ ~load_order.has_cycle => Elems(order) = KeySet /\ Len(order) = Len(graph.keys)
            /\ graph.keys = <<>> => order = <<>> /\ ~load_order.has_cycle

\* C7's case: a cyclic graph whose order is not empty and leaves out a key that
\* is on no cycle itself.
C7_Witness ==
    /\ pc = "done"
    /\ load_order.has_cycle
    /\ load_order.order # <<>>
    /\ \E k \in KeySet : ~OnCycle(G, k) /\ ~InList(k, load_order.order)

\* C8: when the root package is not in the index, the run halts: it reaches
\* none of the graph-printing, cycle-detection and load-order stages and
\* reports no cycle or load-order result.
C8_AbsentRootHalts ==
    (pc \notin {"start", "exit1", "load"} /\ args.package \notin DOMAIN packages_data) =>
        /\ pc \notin {"print_graph", "detect", "topo", "done"}
        /\ \A i \in 1..Len(out) :
               out[i] \notin {"Dependency graph for", "Cycle detected", "No cycles detected",
                              "Load order", "No valid load order can be determined due to cycles"}

\* C9: in every state of a run no name occurs twice in the dependency list of
\* any record of the index.
C9_NoDuplicateDependencies ==
    \A p \in DOMAIN packages_data : NoDup(heap[packages_data[p].dependencies])

\* C10: a list returned by detect_cycles is a cycle of the graph: its elements
\* are keys, each is followed by one of its dependencies, it has two or more
\* elements, and no name occurs twice but the first, which is also the last.
C10_CycleIsGenuine ==
    (pc \in {"topo", "done"} /\ cycle.some) =>
        LET c == cycle.val
        IN  /\ Len(c) >= 2
            /\ \A i \in 1..Len(c) : c[i] \in KeySet
            /\ \A i \in 1..(Len(c) - 1) : InList(c[i + 1], G.adj[c[i]])
            /\ c[1] = c[Len(c)]
            /\ NoDup(SubSeq(c, 1, Len(c) - 1))

\* C10's case: a cycle through three keys is returned.
C10_Witness ==
    /\ pc = "topo"
    /\ cycle.some
    /\ Len(cycle.val) = 4

=============================================================================
